---- MODULE Spec2Model ----
(***************************************************************************)
(* Job orchestration core of linkedin-agent: the Job Store                 *)
(* (backend/src/database.py), the Work Queue                               *)
(* (backend/src/queue/redis_queue.py), the submission path                 *)
(* (backend/src/server.py) and the Worker Loop (backend/src/worker.py).    *)
(*                                                                         *)
(* Every Job Store call is one transaction and is one atomic step here.    *)
(* A worker's position between two store / executor / queue calls is its   *)
(* pc.  The batch rows' started_at / finished_at columns are not read by   *)
(* any worker decision and are left out; the job rows keep theirs.         *)
(***************************************************************************)
EXTENDS Integers, Sequences, FiniteSets, TLC

\* ---------------------------------------------------------------- bounds
NumWorkers == 2
MaxJobs == 1
MaxBatches == 2
MaxCrashes == 1
MaxRedeliveries == 1
MaxClock == 6
MaxFailures == 1
MaxRunBatches == 3
MaxStoreFaults == 2
MaxStoreRows == 1
MaxStoreWrites == 1
MaxListJobs == 3
NumThreads == 3
max_connections == 1
MaxQueueJobs == 3
MaxPlanRows == 6
MaxPlanSize == 3
MaxFrameJobs == 2

\* ------------------------------------------------------ program constants
BATCH_SIZE == 10000
MAX_RETRIES == 3

Workers == 1..NumWorkers

\* A NULL timestamp column; the clock starts above it.
NoTime == 0
\* A NULL text column (error_msg).
NoMsg == "NULL"
\* A NULL path column (output_path); a path is <<job_id, batch_index>>.
NoPath == << >>
\* A NULL result_json column.
NoResult == [present |-> FALSE, final_xlsx |-> 0, batches |-> << >>]

Min(a, b) == IF a <= b THEN a ELSE b

\* ----------------------------------------------------------- job inputs
\* Row counts of the tabular inputs: 0 rows, and for every k in 1..n a file
\* that fills k-1 batches and half of the k-th.
RowCounts(n) == {0} \cup {(k - 1) * BATCH_SIZE + (BATCH_SIZE \div 2) : k \in 1..n}

\* The routing fields of a job descriptor that process_job reads: a query,
\* a tabular file of some number of rows, or neither; and whether it
\* carries a webhook.
Inputs ==
    [inputType : {"query", "none"}, rows : {0}, webhook : {FALSE}]
        \cup [inputType : {"csv"}, rows : RowCounts(MaxBatches), webhook : {FALSE}]

RunInputs ==
    [inputType : {"query", "none"}, rows : {0}, webhook : {FALSE}]
        \cup [inputType : {"csv", "excel"}, rows : RowCounts(MaxRunBatches), webhook : {FALSE}]

VARIABLES
    jobs,          \* table jobs: sequence of rows, row i has id i
    batches,       \* table batches: sequence of rows, row i has id i
    queue,         \* the Redis list job_queue
    xlsx,          \* the batch output files that exist: set of <<job_id, batch_index>>
    finals,        \* the final artifact per job id: [exists, content]
    clock,         \* datetime.utcnow()
    api,           \* the submission handler's position and job_input
    pc,            \* per worker: position in main / process_job
    job,           \* per worker: the dequeued descriptor
    batch_files,   \* per worker: number of batch files planned (len(batch_files))
    idx,           \* per worker: enumerate index of the registration loop
    rows,          \* per worker: the list get_batches returned (line 152)
    pos,           \* per worker: position in that list (1-based)
    attempt,       \* per worker: the retry loop variable
    err,           \* per worker: err returned by run_batch
    batch_outputs, \* per worker: batch_outputs of line 192
    invoked,       \* history: run_batch calls for the current batch in this run
    fails,         \* history: failed run_batch calls for the current batch in this run
    slept,         \* history: the seconds of each time.sleep of the current retry loop
    startCount,    \* history: batch rows of the job when process_job was entered
    doneAtStart,   \* history: indexes finished with an existing output at entry
    failures,      \* history: run_batch calls that have failed so far
    crashes,       \* history: worker crashes so far
    redeliveries,  \* history: external re-enqueues so far
    recovered,     \* history: a job was re-enqueued after its worker had crashed
    exc,           \* per worker: the exception main has caught (line 223)
    storeFaults,   \* history: Job Store calls that have raised so far
    ret,           \* what the last direct Job Store call returned or raised
    enqueued,      \* history: the descriptors pushed to the queue, in rpush order
    delivered,     \* history: the descriptors dequeue has returned, in blpop order
    pool,          \* the connection pool: idle connections and each thread's position
    tx,            \* the open transaction of a Job Store write
    posts,         \* history: the webhook POSTs made, in order
    plan           \* the last result of batch_csv / batch_xlsx

vars == <<jobs, batches, queue, xlsx, finals, clock, api, pc, job, batch_files, idx,
          rows, pos, attempt, err, batch_outputs, invoked, fails, slept, startCount,
          doneAtStart, failures, crashes, redeliveries, recovered, exc, storeFaults,
          ret, enqueued, delivered, pool, tx, posts, plan>>

store == <<jobs, batches>>
files == <<xlsx, finals>>
locals == <<job, batch_files, idx, rows, pos, attempt, err, batch_outputs>>
history == <<invoked, fails, slept, startCount, doneAtStart>>
faults == <<exc, storeFaults>>
env == <<crashes, redeliveries, recovered, faults>>
qhist == <<enqueued, delivered>>
side == <<pool, tx, posts, plan>>
aux == <<qhist, side>>
core == <<store, queue, files, clock, api, pc, locals, history, failures, env, ret, qhist>>

NoJob == [job_id |-> 0, inputType |-> "none", rows |-> 0, webhook |-> FALSE]

\* ------------------------------------------------------- Python values
\* An argument as the Job Store's isinstance and truth tests see it.
PyNone == [type |-> "NoneType", s |-> "", n |-> 0]
PyStr(s) == [type |-> "str", s |-> s, n |-> 0]
PyInt(n) == [type |-> "int", s |-> "", n |-> n]

\* bool(v): None, "" and 0 are false.
truthy(v) ==
    CASE v.type = "NoneType" -> FALSE
      [] v.type = "str" -> v.s # ""
      [] v.type = "int" -> v.n # 0
      [] OTHER -> TRUE

\* What a call returned or raised: an id, a row (<< >> for None), or ValueError.
\* raised is the message of the ValueError, "" when the call returned.
NoRet == [op |-> "none", raised |-> "", id |-> 0, row |-> << >>]
Raise(op, msg) == [op |-> op, raised |-> msg, id |-> 0, row |-> << >>]
ReturnId(op, id) == [op |-> op, raised |-> "", id |-> id, row |-> << >>]
ReturnRow(op, row) == [op |-> op, raised |-> "", id |-> 0, row |-> row]

\* ------------------------------------------------------------ Job Store
\* datetime.utcnow(): the value read, and the clock after the read.
Now == clock
Tick == Min(clock + 1, MaxClock)

\* create_job with the INSERT of line 163 writing status 'running' and started_at.
NewJobRowStarted(input, owner_email) ==
    [id |-> Len(jobs) + 1, owner_email |-> owner_email, input |-> input,
     status |-> "running", created_at |-> Now,
     started_at |-> Now, finished_at |-> NoTime, result |-> NoResult,
     error_msg |-> NoMsg]

\* create_job: INSERT ... status 'queued', created_at now.
NewJobRow(input, owner_email) ==
    [id |-> Len(jobs) + 1, owner_email |-> owner_email, input |-> input,
     status |-> "queued", created_at |-> Now,
     started_at |-> NoTime, finished_at |-> NoTime, result |-> NoResult,
     error_msg |-> NoMsg]

\* update_job_status: the UPDATE applied to one row.
JobRowAfterUpdate(row, status, error_msg) ==
    IF status = "running"
    THEN [row EXCEPT !.status = status, !.started_at = Now]
    ELSE IF status \in {"finished", "failed"}
    THEN [row EXCEPT !.status = status, !.finished_at = Now, !.error_msg = error_msg]
    ELSE [row EXCEPT !.status = status]

\* update_job_status with the UPDATE written without its WHERE clause.
update_job_status_no_where(job_id, status, error_msg) ==
    [i \in DOMAIN jobs |-> JobRowAfterUpdate(jobs[i], status, error_msg)]

\* update_job_status: UPDATE jobs ... WHERE id = job_id (no row: no change).
update_job_status(job_id, status, error_msg) ==
    [i \in DOMAIN jobs |->
        IF i = job_id THEN JobRowAfterUpdate(jobs[i], status, error_msg) ELSE jobs[i]]

\* save_job_result: UPDATE jobs SET result_json = ? WHERE id = ?.
save_job_result(job_id, result) ==
    [i \in DOMAIN jobs |-> IF i = job_id THEN [jobs[i] EXCEPT !.result = result] ELSE jobs[i]]

\* create_batch: INSERT ... status 'pending'.
create_batch(job_id, batch_index, input_path) ==
    Append(batches,
           [id |-> Len(batches) + 1, job_id |-> job_id, batch_index |-> batch_index,
            input_path |-> input_path, output_path |-> NoPath, status |-> "pending",
            error_msg |-> NoMsg])

\* update_batch_status: the UPDATE applied to one row.
BatchRowAfterUpdate(row, status, error_msg) ==
    IF status = "running"
    THEN [row EXCEPT !.status = status]
    ELSE IF status \in {"finished", "failed"}
    THEN [row EXCEPT !.status = status, !.error_msg = error_msg]
    ELSE [row EXCEPT !.status = status]

\* update_batch_status with WHERE batch_index = (the index of the row) in the
\* place of WHERE id = ?.
update_batch_status_by_index(batch_id, status, error_msg) ==
    [i \in DOMAIN batches |->
        IF batch_id \in DOMAIN batches /\ batches[i].batch_index = batches[batch_id].batch_index
        THEN BatchRowAfterUpdate(batches[i], status, error_msg)
        ELSE batches[i]]

\* update_batch_status: UPDATE job_batches ... WHERE id = batch_id.
update_batch_status(batch_id, status, error_msg) ==
    [i \in DOMAIN batches |->
        IF i = batch_id THEN BatchRowAfterUpdate(batches[i], status, error_msg)
        ELSE batches[i]]

\* save_batch_output: UPDATE batches SET output_path = ? WHERE id = ?.
save_batch_output(batch_id, output_path) ==
    [i \in DOMAIN batches |->
        IF i = batch_id THEN [batches[i] EXCEPT !.output_path = output_path]
        ELSE batches[i]]

\* The rows of one job with one batch_index, in id order.
RowsAt(job_id, i) ==
    SelectSeq(batches, LAMBDA b : b.job_id = job_id /\ b.batch_index = i)

RECURSIVE RowsFrom(_, _)
RowsFrom(job_id, i) ==
    IF i > Len(batches) THEN << >>
    ELSE RowsAt(job_id, i) \o RowsFrom(job_id, i + 1)

\* The rows of one job from batch_index i down to 0.
RECURSIVE RowsDownFrom(_, _)
RowsDownFrom(job_id, i) ==
    IF i < 0 THEN << >>
    ELSE RowsAt(job_id, i) \o RowsDownFrom(job_id, i - 1)

\* get_batches with ORDER BY batch_index DESC.
get_batches_desc(job_id) == RowsDownFrom(job_id, Len(batches))

\* get_batches: SELECT ... WHERE job_id = ? ORDER BY batch_index ASC
\* (rows of equal batch_index in id order).
get_batches(job_id) == RowsFrom(job_id, 0)

\* --------------------------------------------------------- Batch Planner
\* batch_csv / batch_xlsx: one file per i in range(0, n, batch_size).
RECURSIVE RangeLen(_, _, _)
RangeLen(i, n, step) == IF i >= n THEN 0 ELSE 1 + RangeLen(i + step, n, step)

batch_csv(n, batch_size) == RangeLen(0, n, batch_size)

\* The chunking without the else branch of lines 142-145: a descriptor with
\* no valid input keeps the empty batch_files list.
PlannedFilesNoElse(d) ==
    IF d.inputType \in {"csv", "excel"} THEN batch_csv(d.rows, BATCH_SIZE)
    ELSE IF d.inputType = "query" THEN 1
    ELSE 0

\* df.slice(i, length) without the clamp at the end of the frame.
slice_unclamped(i, length, n) == [first |-> i, last |-> i + length - 1]

\* df.slice(i, length) of an n-row frame: the rows i .. min(i + length, n) - 1.
slice(i, length, n) ==
    [first |-> i, last |-> (IF i + length < n THEN i + length ELSE n) - 1]

\* batch_csv / batch_xlsx lines 46-50: the slices written, in file order.
RECURSIVE SlicesFrom(_, _, _)
SlicesFrom(i, n, batch_size) ==
    IF i >= n THEN << >>
    ELSE <<slice(i, batch_size, n)>> \o SlicesFrom(i + batch_size, n, batch_size)

batch_slices(n, batch_size) == SlicesFrom(0, n, batch_size)

SliceRows(sl) == sl.last - sl.first + 1

\* pd.concat(dfs, ignore_index=True): the rows of the outputs, one after another.
RECURSIVE concat_rows(_)
concat_rows(outs) ==
    IF outs = << >> THEN 0 ELSE Head(outs) + concat_rows(Tail(outs))

\* process_job lines 130-145: len(batch_files), or -1 for "no valid input".
PlannedFiles(d) ==
    IF d.inputType \in {"csv", "excel"} THEN batch_csv(d.rows, BATCH_SIZE)
    ELSE IF d.inputType = "query" THEN 1
    ELSE -1

\* ---------------------------------------------------------------- files
\* output_xlsx of a batch: outputs_dir/batch_{batch_index:04d}_output.xlsx.
output_xlsx(job_id, batch_index) == <<job_id, batch_index>>

NoFinal == [exists |-> FALSE, content |-> << >>]

\* merge_excel: the outputs that exist are read in order and, if there is at
\* least one, concatenated into final_path; otherwise nothing is written.
merge_excel(outputs, old) ==
    LET dfs == SelectSeq(outputs, LAMBDA f : f \in xlsx)
    IN  IF dfs # << >> THEN [exists |-> TRUE, content |-> dfs] ELSE old

\* The error texts run_batch returns: str(e) of the exception it caught, the
\* message of a CalledProcessError, an OSError or a JSON / pandas error.
ExecErrors == {"Command returned non-zero exit status 1."}

\* ------------------------------------------------------ connection pool
Threads == 1..NumThreads

\* ConnectionPool.__init__ / _initialize_pool: the pool starts full and no
\* thread is inside get_connection.
NewPool ==
    [idle |-> [i \in 1..max_connections |-> i],
     at |-> [t \in Threads |-> "out"],
     conn |-> [t \in Threads |-> 0]]

\* No transaction has been opened: before is the store at BEGIN, work the
\* rows as the connection of the transaction sees them.
NoTx == [at |-> "none", op |-> "none", before |-> << << >>, << >> >>,
         work |-> << << >>, << >> >>]

\* Nothing has been planned yet.
NoPlan == [at |-> "new", n |-> 0, batch_size |-> 0, slices |-> << >>, outs |-> << >>,
           merged |-> 0]

\* ------------------------------------------------------- initial state
Init ==
    /\ jobs = << >>
    /\ batches = << >>
    /\ queue = << >>
    /\ xlsx = {}
    /\ finals = [j \in 1..MaxJobs |-> NoFinal]
    /\ clock = 1
    /\ api = [pc |-> "idle", job_input |-> NoJob]
    /\ pc = [w \in Workers |-> "idle"]
    /\ job = [w \in Workers |-> NoJob]
    /\ batch_files = [w \in Workers |-> 0]
    /\ idx = [w \in Workers |-> 0]
    /\ rows = [w \in Workers |-> << >>]
    /\ pos = [w \in Workers |-> 0]
    /\ attempt = [w \in Workers |-> 0]
    /\ err = [w \in Workers |-> NoMsg]
    /\ batch_outputs = [w \in Workers |-> << >>]
    /\ invoked = [w \in Workers |-> 0]
    /\ fails = [w \in Workers |-> 0]
    /\ slept = [w \in Workers |-> << >>]
    /\ startCount = [w \in Workers |-> 0]
    /\ doneAtStart = [w \in Workers |-> {}]
    /\ failures = 0
    /\ crashes = 0
    /\ redeliveries = 0
    /\ recovered = FALSE
    /\ exc = [w \in Workers |-> NoMsg]
    /\ storeFaults = 0
    /\ ret = NoRet
    /\ enqueued = << >>
    /\ delivered = << >>
    /\ pool = NewPool
    /\ tx = NoTx
    /\ posts = << >>
    /\ plan = NoPlan

\* A worker back at the top of the main loop holds nothing of the last job.
ResetWorker(w) ==
    /\ pc' = [pc EXCEPT ![w] = "idle"]
    /\ job' = [job EXCEPT ![w] = NoJob]
    /\ batch_files' = [batch_files EXCEPT ![w] = 0]
    /\ idx' = [idx EXCEPT ![w] = 0]
    /\ rows' = [rows EXCEPT ![w] = << >>]
    /\ pos' = [pos EXCEPT ![w] = 0]
    /\ attempt' = [attempt EXCEPT ![w] = 0]
    /\ err' = [err EXCEPT ![w] = NoMsg]
    /\ batch_outputs' = [batch_outputs EXCEPT ![w] = << >>]
    /\ invoked' = [invoked EXCEPT ![w] = 0]
    /\ fails' = [fails EXCEPT ![w] = 0]
    /\ slept' = [slept EXCEPT ![w] = << >>]
    /\ startCount' = [startCount EXCEPT ![w] = 0]
    /\ doneAtStart' = [doneAtStart EXCEPT ![w] = {}]

\* ------------------------------------------------------ submission path
\* submit_job lines 185-202: the owner is a form field that passed validate_email.
SubmitOwner == PyStr("a@example.com")

\* submit_job line 283: job_id = jobdb.create_job(job_input, owner_email);
\* line 284: job_input["job_id"] = job_id.
SubmitCreate(input) ==
    /\ api.pc = "idle"
    /\ jobs' = Append(jobs, NewJobRow(input, SubmitOwner))
    /\ clock' = Tick
    /\ api' = [pc |-> "created",
               job_input |-> [job_id |-> Len(jobs) + 1, inputType |-> input.inputType,
                              rows |-> input.rows, webhook |-> input.webhook]]
    /\ UNCHANGED <<ret, aux, batches, queue, files, pc, locals, history, failures, env>>

\* submit_job line 285: jobdb.update_job_status(job_id, "queued").
SubmitSetQueued ==
    /\ api.pc = "created"
    /\ jobs' = update_job_status(api.job_input.job_id, "queued", NoMsg)
    /\ clock' = Tick
    /\ api' = [api EXCEPT !.pc = "queued"]
    /\ UNCHANGED <<ret, aux, batches, queue, files, pc, locals, history, failures, env>>

\* RedisQueue.enqueue: rpush to the tail of the list.
enqueue(d) == Append(queue, d)

\* submit_job line 286: queue.enqueue(job_input).
SubmitEnqueue ==
    /\ api.pc = "queued"
    /\ queue' = enqueue(api.job_input)
    /\ enqueued' = Append(enqueued, api.job_input)
    /\ api' = [pc |-> "idle", job_input |-> NoJob]
    /\ UNCHANGED <<ret, delivered, side, store, files, clock, pc, locals, history, failures, env>>

\* ---------------------------------------------------------- worker loop
Set(f, w, v) == [f EXCEPT ![w] = v]

\* RedisQueue.dequeue popping with brpop, from the tail of the list.
dequeue_brpop == [item |-> queue[Len(queue)], rest |-> SubSeq(queue, 1, Len(queue) - 1)]

\* RedisQueue.dequeue: blpop from the head of the list.
dequeue == [item |-> Head(queue), rest |-> Tail(queue)]

\* main lines 214-219: job = queue.dequeue(); job_id = job.get("job_id").
\* Idle workers are interchangeable: the one of lowest number is served.
Dequeue(w) ==
    /\ pc[w] = "idle"
    /\ \A v \in Workers : v < w => pc[v] # "idle"
    /\ queue # << >>
    /\ job' = Set(job, w, dequeue.item)
    /\ queue' = dequeue.rest
    /\ delivered' = Append(delivered, dequeue.item)
    /\ pc' = Set(pc, w, "set_running")
    /\ UNCHANGED <<ret, enqueued, side, store, files, clock, api, batch_files, idx, rows, pos, attempt, err,
                   batch_outputs, history, failures, env>>

\* main line 220: jobdb.update_job_status(job_id, "running").
SetRunning(w) ==
    /\ pc[w] = "set_running"
    /\ jobs' = update_job_status(job[w].job_id, "running", NoMsg)
    /\ clock' = Tick
    /\ pc' = Set(pc, w, "process_job")
    /\ UNCHANGED <<ret, aux, batches, queue, files, api, locals, history, failures, env>>

\* The batch indexes of a job that have a finished row with an existing output.
DoneIndexes(job_id) ==
    {b.batch_index : b \in {batches[i] : i \in {k \in DOMAIN batches :
        /\ batches[k].job_id = job_id
        /\ batches[k].status = "finished"
        /\ output_xlsx(job_id, batches[k].batch_index) \in xlsx}}}

\* process_job lines 119-145: the input is chunked into batch files; a
\* descriptor with no valid input marks the job failed and returns.
ProcessJobEntry(w) ==
    /\ pc[w] = "process_job"
    /\ IF PlannedFiles(job[w]) < 0
       THEN /\ jobs' = update_job_status(job[w].job_id, "failed", "No valid input for job")
            /\ clock' = Tick
            /\ ResetWorker(w)
       ELSE /\ batch_files' = Set(batch_files, w, PlannedFiles(job[w]))
            /\ idx' = Set(idx, w, 0)
            /\ pc' = Set(pc, w, IF PlannedFiles(job[w]) > 0 THEN "register" ELSE "get_batches")
            /\ startCount' = Set(startCount, w, Len(get_batches(job[w].job_id)))
            /\ doneAtStart' = Set(doneAtStart, w, DoneIndexes(job[w].job_id))
            /\ UNCHANGED <<ret, aux, jobs, clock, job, rows, pos, attempt, err, batch_outputs,
                           invoked, fails, slept>>
    /\ UNCHANGED <<ret, aux, batches, queue, files, api, failures, env>>

\* process_job lines 148-149: jobdb.create_batch(job_id, idx, batch_file),
\* for every planned file, whatever rows the job already has.
RegisterBatch(w) ==
    /\ pc[w] = "register"
    /\ batches' = create_batch(job[w].job_id, idx[w], <<job[w].inputType, idx[w]>>)
    /\ idx' = Set(idx, w, idx[w] + 1)
    /\ pc' = Set(pc, w, IF idx[w] + 1 < batch_files[w] THEN "register" ELSE "get_batches")
    /\ UNCHANGED <<ret, aux, jobs, queue, files, clock, api, job, batch_files, rows, pos, attempt,
                   err, batch_outputs, history, failures, env>>

\* process_job line 152: the list the for loop iterates is read once.
GetBatches(w) ==
    /\ pc[w] = "get_batches"
    /\ rows' = Set(rows, w, get_batches(job[w].job_id))
    /\ pos' = Set(pos, w, 1)
    /\ pc' = Set(pc, w, "next_batch")
    /\ UNCHANGED <<ret, aux, store, queue, files, clock, api, job, batch_files, idx, attempt, err,
                   batch_outputs, history, failures, env>>

\* The row of the list the worker is at.
cur(w) == rows[w][pos[w]]

\* process_job line 160: batch_row["status"] == "finished" and
\* Path(output_xlsx).exists(): the status is the one of the list read at
\* line 152, the file is looked up now.
SkipBatch(w) ==
    /\ cur(w).status = "finished"
    /\ output_xlsx(job[w].job_id, cur(w).batch_index) \in xlsx

\* process_job lines 152-163: the next row of the list is skipped or its
\* retry loop is entered; after the last row the loop is left.
NextBatch(w) ==
    /\ pc[w] = "next_batch"
    /\ IF pos[w] > Len(rows[w])
       THEN /\ pc' = Set(pc, w, "merge")
            /\ UNCHANGED <<ret, aux, pos, attempt, invoked, fails, slept>>
       ELSE IF SkipBatch(w)
       THEN /\ pos' = Set(pos, w, pos[w] + 1)
            /\ invoked' = Set(invoked, w, 0)
            /\ fails' = Set(fails, w, 0)
            /\ slept' = Set(slept, w, << >>)
            /\ UNCHANGED <<ret, aux, pc, attempt>>
       ELSE /\ attempt' = Set(attempt, w, 1)
            /\ pc' = Set(pc, w, "mark_running")
            /\ invoked' = Set(invoked, w, 0)
            /\ fails' = Set(fails, w, 0)
            /\ slept' = Set(slept, w, << >>)
            /\ UNCHANGED pos
    /\ UNCHANGED <<ret, aux, store, queue, files, clock, api, job, batch_files, idx, rows, err,
                   batch_outputs, startCount, doneAtStart, failures, env>>

\* process_job line 164: jobdb.update_batch_status(batch_id, "running").
MarkRunning(w) ==
    /\ pc[w] = "mark_running"
    /\ batches' = update_batch_status(cur(w).id, "running", NoMsg)
    /\ pc' = Set(pc, w, "run_batch")
    /\ UNCHANGED <<ret, aux, jobs, queue, files, clock, api, locals, history, failures, env>>

\* process_job line 178 / run_batch line 81: the executor is started.
StartBatch(w) ==
    /\ pc[w] = "run_batch"
    /\ pc' = Set(pc, w, "executing")
    /\ invoked' = Set(invoked, w, invoked[w] + 1)
    /\ UNCHANGED <<ret, aux, store, queue, files, clock, api, locals, fails, slept, startCount,
                   doneAtStart, failures, env>>

\* run_batch lines 87-112: the output is written to batch_output_xlsx and
\* (True, None) is returned.
BatchOk(w) ==
    /\ pc[w] = "executing"
    /\ xlsx' = xlsx \cup {output_xlsx(job[w].job_id, cur(w).batch_index)}
    /\ pc' = Set(pc, w, "mark_finished")
    /\ UNCHANGED <<ret, aux, store, queue, finals, clock, api, locals, history, failures, env>>

\* run_batch lines 113-116: any exception is returned as (False, str(e)).
BatchFail(w) ==
    /\ pc[w] = "executing"
    /\ \E e \in ExecErrors : err' = Set(err, w, e)
    /\ fails' = Set(fails, w, fails[w] + 1)
    /\ failures' = failures + 1
    /\ pc' = Set(pc, w, "mark_failed")
    /\ UNCHANGED <<ret, aux, store, queue, files, clock, api, job, batch_files, idx, rows, pos,
                   attempt, batch_outputs, invoked, slept, startCount, doneAtStart, env>>

\* process_job line 180: jobdb.update_batch_status(batch_id, "finished").
MarkFinished(w) ==
    /\ pc[w] = "mark_finished"
    /\ batches' = update_batch_status(cur(w).id, "finished", NoMsg)
    /\ pc' = Set(pc, w, "save_output")
    /\ UNCHANGED <<ret, aux, jobs, queue, files, clock, api, locals, history, failures, env>>

\* The retry loop without the break of line 182: after the output is saved
\* the next attempt is made while attempts remain.
SaveOutputNoBreak(w) ==
    /\ pc[w] = "save_output"
    /\ batches' = save_batch_output(cur(w).id, output_xlsx(job[w].job_id, cur(w).batch_index))
    /\ IF attempt[w] < MAX_RETRIES
       THEN /\ attempt' = Set(attempt, w, attempt[w] + 1)
            /\ pc' = Set(pc, w, "mark_running")
            /\ UNCHANGED pos
       ELSE /\ pos' = Set(pos, w, pos[w] + 1)
            /\ pc' = Set(pc, w, "next_batch")
            /\ UNCHANGED attempt
    /\ UNCHANGED <<ret, aux, jobs, queue, files, clock, api, job, batch_files, idx, rows,
                   err, batch_outputs, history, failures, env>>

\* process_job lines 181-182 and 187-189: jobdb.save_batch_output(batch_id,
\* output_xlsx); break; the row is read again for the log line only.
SaveOutput(w) ==
    /\ pc[w] = "save_output"
    /\ batches' = save_batch_output(cur(w).id, output_xlsx(job[w].job_id, cur(w).batch_index))
    /\ pos' = Set(pos, w, pos[w] + 1)
    /\ pc' = Set(pc, w, "next_batch")
    /\ UNCHANGED <<ret, aux, jobs, queue, files, clock, api, job, batch_files, idx, rows, attempt,
                   err, batch_outputs, history, failures, env>>

\* process_job line 185: the seconds of the sleep after a failed attempt.
BASE_DELAY == 10

\* The sleep without the factor attempt.
backoff_flat(attempt_) == BASE_DELAY

backoff(attempt_) == BASE_DELAY * attempt_

\* range(1, MAX_RETRIES+1), the values of the retry loop variable.
AttemptsShort == 1..(MAX_RETRIES - 1)
Attempts == 1..MAX_RETRIES

\* The failure branch leaving the loop over the batches once a batch has
\* used all its attempts.
MarkFailedAbort(w) ==
    /\ pc[w] = "mark_failed"
    /\ batches' = update_batch_status(cur(w).id, "failed", err[w])
    /\ IF attempt[w] + 1 \in Attempts
       THEN /\ attempt' = Set(attempt, w, attempt[w] + 1)
            /\ pc' = Set(pc, w, "mark_running")
            /\ UNCHANGED pos
       ELSE /\ pos' = Set(pos, w, pos[w] + 1)
            /\ pc' = Set(pc, w, "merge")
            /\ UNCHANGED attempt
    /\ slept' = Set(slept, w, Append(slept[w], backoff(attempt[w])))
    /\ UNCHANGED <<ret, aux, jobs, queue, files, clock, api, job, batch_files, idx, rows, err,
                   batch_outputs, invoked, fails, startCount, doneAtStart, failures, env>>

\* process_job lines 184-189: jobdb.update_batch_status(batch_id, "failed",
\* error_msg=err); time.sleep(10 * attempt); the next attempt, or the loop is
\* left.
MarkFailed(w) ==
    /\ pc[w] = "mark_failed"
    /\ batches' = update_batch_status(cur(w).id, "failed", err[w])
    /\ IF attempt[w] + 1 \in Attempts
       THEN /\ attempt' = Set(attempt, w, attempt[w] + 1)
            /\ pc' = Set(pc, w, "mark_running")
            /\ UNCHANGED pos
       ELSE /\ pos' = Set(pos, w, pos[w] + 1)
            /\ pc' = Set(pc, w, "next_batch")
            /\ UNCHANGED attempt
    /\ slept' = Set(slept, w, Append(slept[w], backoff(attempt[w])))
    /\ UNCHANGED <<ret, aux, jobs, queue, files, clock, api, job, batch_files, idx, rows, err,
                   batch_outputs, invoked, fails, startCount, doneAtStart, failures, env>>

\* Line 192 without its filter: the output path column of every row.
FinishedOutputsUnfiltered(job_id) ==
    [i \in DOMAIN get_batches(job_id) |-> get_batches(job_id)[i].output_path]

\* process_job line 192: the output paths of the rows that are finished and
\* have an output path, in get_batches order.
FinishedOutputs(job_id) ==
    LET fin == SelectSeq(get_batches(job_id),
                         LAMBDA b : b.status = "finished" /\ b.output_path # NoPath)
    IN  [i \in DOMAIN fin |-> fin[i].output_path]

\* process_job lines 192-194: batch_outputs is collected and merged into
\* JOBS_DIR/job_{job_id}_final.xlsx.
Merge(w) ==
    /\ pc[w] = "merge"
    /\ batch_outputs' = Set(batch_outputs, w, FinishedOutputs(job[w].job_id))
    /\ finals' = [finals EXCEPT ![job[w].job_id] =
                      merge_excel(FinishedOutputs(job[w].job_id), @)]
    /\ pc' = Set(pc, w, "set_finished")
    /\ UNCHANGED <<ret, aux, store, queue, xlsx, clock, api, job, batch_files, idx, rows, pos,
                   attempt, err, history, failures, env>>

\* process_job line 196: jobdb.update_job_status(job_id, "finished").
SetFinished(w) ==
    /\ pc[w] = "set_finished"
    /\ jobs' = update_job_status(job[w].job_id, "finished", NoMsg)
    /\ clock' = Tick
    /\ pc' = Set(pc, w, "save_result")
    /\ UNCHANGED <<ret, aux, batches, queue, files, api, locals, history, failures, env>>

\* process_job line 197: jobdb.save_job_result(job_id, {"final_xlsx": ...,
\* "batches": batch_outputs}); lines 200-201: without a webhook process_job
\* returns to the main loop.
SaveResult(w) ==
    /\ pc[w] = "save_result"
    /\ jobs' = save_job_result(job[w].job_id,
                   [present |-> TRUE, final_xlsx |-> job[w].job_id,
                    batches |-> batch_outputs[w]])
    /\ IF job[w].webhook
       THEN pc' = Set(pc, w, "webhook") /\ UNCHANGED <<locals, history>>
       ELSE ResetWorker(w)
    /\ UNCHANGED <<ret, aux, batches, queue, files, clock, api, failures, env>>

\* main lines 221-226 if the exception of the POST left process_job: the
\* job is recorded as failed.
PostWebhookFailRaises(w) ==
    /\ pc[w] = "webhook"
    /\ jobs' = update_job_status(job[w].job_id, "failed", "ConnectionError")
    /\ clock' = Tick
    /\ ResetWorker(w)
    /\ UNCHANGED <<ret, aux, batches, queue, files, api, failures, env>>

\* process_job lines 203-205: requests.post(webhook, json={job_id, status,
\* result}); the response is logged and process_job returns.
PostWebhook(w) ==
    /\ pc[w] = "webhook"
    /\ posts' = Append(posts, [job_id |-> job[w].job_id, status |-> "finished",
                               final_xlsx |-> job[w].job_id])
    /\ ResetWorker(w)
    /\ UNCHANGED <<ret, qhist, pool, tx, plan, store, queue, files, clock, api, failures, env>>

\* process_job lines 206-207: requests.post raises; the exception is logged
\* and process_job returns.
PostWebhookFail(w) ==
    /\ pc[w] = "webhook"
    /\ ResetWorker(w)
    /\ UNCHANGED <<ret, aux, store, queue, files, clock, api, failures, env>>

\* ---------------------------------------------------------- environment
\* An executor failure, while the budget of failures lasts.
BoundedBatchFail(w) ==
    /\ failures < MaxFailures
    /\ BatchFail(w)

\* The worker process dies between two steps and is restarted: everything
\* it held in memory is gone, the store, the queue and the files stay.
Crash(w) ==
    /\ pc[w] # "idle"
    /\ crashes < MaxCrashes
    /\ crashes' = crashes + 1
    /\ ResetWorker(w)
    /\ UNCHANGED <<ret, aux, store, queue, files, clock, api, failures, redeliveries, recovered,
                   faults>>

InQueue(job_id) == \E i \in DOMAIN queue : queue[i].job_id = job_id

\* An operator or supervisor re-enqueues the descriptor of a job that is
\* still recorded as running.
Redeliver(job_id) ==
    /\ job_id \in DOMAIN jobs
    /\ jobs[job_id].status = "running"
    /\ ~InQueue(job_id)
    /\ redeliveries < MaxRedeliveries
    /\ redeliveries' = redeliveries + 1
    /\ recovered' = (recovered \/ (crashes > 0 /\ \A w \in Workers : pc[w] = "idle"))
    /\ queue' = enqueue([job_id |-> job_id, inputType |-> jobs[job_id].input.inputType,
                         rows |-> jobs[job_id].input.rows,
                         webhook |-> jobs[job_id].input.webhook])
    /\ enqueued' = Append(enqueued, [job_id |-> job_id,
                                     inputType |-> jobs[job_id].input.inputType,
                                     rows |-> jobs[job_id].input.rows,
                                     webhook |-> jobs[job_id].input.webhook])
    /\ UNCHANGED <<ret, delivered, side, store, files, clock, api, pc, locals, history, failures, crashes,
                   faults>>

\* ------------------------------------------------------- specifications
WorkerStep(w) ==
    \/ Dequeue(w)
    \/ SetRunning(w)
    \/ ProcessJobEntry(w)
    \/ RegisterBatch(w)
    \/ GetBatches(w)
    \/ NextBatch(w)
    \/ MarkRunning(w)
    \/ StartBatch(w)
    \/ BatchOk(w)
    \/ MarkFinished(w)
    \/ SaveOutput(w)
    \/ MarkFailed(w)
    \/ Merge(w)
    \/ SetFinished(w)
    \/ SaveResult(w)

\* Submission, workers, executor failures, crashes and redelivery.
Next ==
    \/ \E input \in Inputs : Len(jobs) < MaxJobs /\ SubmitCreate(input)
    \/ SubmitSetQueued
    \/ SubmitEnqueue
    \/ \E w \in Workers : WorkerStep(w)
    \/ \E w \in Workers : BoundedBatchFail(w)
    \/ \E w \in Workers : Crash(w)
    \/ \E j \in 1..MaxJobs : Redeliver(j)

Spec == Init /\ [][Next]_vars

\* The undisturbed run of one job: its descriptor is delivered once and no
\* worker crashes; the executor may fail at every call.  A worker that can
\* take a step takes it, and so does the submission handler.
RunNext ==
    \/ \E input \in RunInputs : jobs = << >> /\ SubmitCreate(input)
    \/ SubmitSetQueued
    \/ SubmitEnqueue
    \/ \E w \in Workers : WorkerStep(w)
    \/ \E w \in Workers : BatchFail(w)

RunSpec == Init /\ [][RunNext]_vars /\ WF_vars(RunNext)

\* -------------------------------------------------------- store faults
\* The error texts of a Job Store call that fails (sqlite3 errors, re-raised
\* by the store after its transaction is rolled back).
StoreErrors == {"database is locked"}

\* The positions of process_job whose next step is a Job Store call.
StoreCallPcs ==
    {"register", "get_batches", "mark_running", "mark_finished", "save_output",
     "mark_failed", "merge", "set_finished", "save_result"}

\* main line 220: update_job_status(job_id, "running") raises.  The call is
\* outside the try of line 221, so the exception leaves main and the worker
\* process ends; the transaction was rolled back.
FaultSetRunning(w) ==
    /\ pc[w] = "set_running"
    /\ storeFaults < MaxStoreFaults
    /\ storeFaults' = storeFaults + 1
    /\ pc' = Set(pc, w, "dead")
    /\ UNCHANGED <<ret, aux, store, queue, files, clock, api, locals, history, failures, crashes,
                   redeliveries, recovered, exc>>

\* A Job Store call inside process_job raises (rolled back): the exception
\* is caught at main line 223.
FaultInProcessJob(w) ==
    /\ \/ pc[w] \in StoreCallPcs
       \/ pc[w] = "process_job" /\ PlannedFiles(job[w]) < 0
    /\ storeFaults < MaxStoreFaults
    /\ storeFaults' = storeFaults + 1
    /\ \E e \in StoreErrors : exc' = Set(exc, w, e)
    /\ pc' = Set(pc, w, "record_failure")
    /\ UNCHANGED <<ret, aux, store, queue, files, clock, api, locals, history, failures, crashes,
                   redeliveries, recovered>>

\* main lines 224-226: update_job_status(job_id, "failed", error_msg=str(e));
\* continue.
RecordFailure(w) ==
    /\ pc[w] = "record_failure"
    /\ jobs' = update_job_status(job[w].job_id, "failed", exc[w])
    /\ clock' = Tick
    /\ exc' = Set(exc, w, NoMsg)
    /\ ResetWorker(w)
    /\ UNCHANGED <<ret, aux, batches, queue, files, api, failures, crashes, redeliveries, recovered,
                   storeFaults>>

\* main line 225 raises inside the except block: nothing catches it, the
\* exception leaves main and the worker process ends.
FaultRecordFailure(w) ==
    /\ pc[w] = "record_failure"
    /\ storeFaults < MaxStoreFaults
    /\ storeFaults' = storeFaults + 1
    /\ pc' = Set(pc, w, "dead")
    /\ UNCHANGED <<ret, aux, store, queue, files, clock, api, locals, history, failures, crashes,
                   redeliveries, recovered, exc>>

\* The undisturbed run of one job with Job Store calls that may raise.
FaultNext ==
    \/ \E input \in Inputs : jobs = << >> /\ SubmitCreate(input)
    \/ SubmitSetQueued
    \/ SubmitEnqueue
    \/ \E w \in Workers : WorkerStep(w)
    \/ \E w \in Workers : BoundedBatchFail(w)
    \/ \E w \in Workers : FaultSetRunning(w)
    \/ \E w \in Workers : FaultInProcessJob(w)
    \/ \E w \in Workers : RecordFailure(w)
    \/ \E w \in Workers : FaultRecordFailure(w)

FaultSpec == Init /\ [][FaultNext]_vars /\ WF_vars(FaultNext)

\* ------------------------------------------------------------ the queue
\* main lines 215-217 with "return" in the place of "continue".
DequeueTimeoutExit(w) ==
    /\ pc[w] = "idle"
    /\ queue = << >>
    /\ pc' = Set(pc, w, "dead")
    /\ UNCHANGED <<ret, aux, store, queue, files, clock, api, locals, history, failures, env>>

\* RedisQueue.dequeue lines 20-24 on an empty list: blpop gives up after its
\* timeout of 10 seconds and dequeue returns None; main lines 215-216: sleep.
DequeueTimeout(w) ==
    /\ pc[w] = "idle"
    /\ queue = << >>
    /\ pc' = Set(pc, w, "sleep")
    /\ UNCHANGED <<ret, aux, store, queue, files, clock, api, locals, history, failures, env>>

\* main lines 216-217: time.sleep(2) is over; continue.
Wake(w) ==
    /\ pc[w] = "sleep"
    /\ pc' = Set(pc, w, "idle")
    /\ UNCHANGED <<ret, aux, store, queue, files, clock, api, locals, history, failures, env>>

\* Descriptors that main takes from the queue and process_job turns down at once.
QueueInputs == {[inputType |-> "none", rows |-> 0, webhook |-> FALSE]}

QueueSubmitCreate(input) ==
    /\ Len(jobs) < MaxQueueJobs
    /\ SubmitCreate(input)

\* The steps of one worker process on such descriptors.
QueueWorker(w) ==
    \/ Dequeue(w)
    \/ DequeueTimeout(w)
    \/ Wake(w)
    \/ SetRunning(w)
    \/ ProcessJobEntry(w)

\* Several submissions and several workers share the queue.  Every worker
\* is a process of its own, and so is the submission handler.
QueueNext ==
    \/ \E input \in QueueInputs : QueueSubmitCreate(input)
    \/ SubmitSetQueued
    \/ SubmitEnqueue
    \/ \E w \in Workers : QueueWorker(w)

QueueSpec ==
    /\ Init
    /\ [][QueueNext]_vars
    /\ \A w \in Workers : WF_vars(QueueWorker(w))
    /\ WF_vars(SubmitSetQueued \/ SubmitEnqueue)

\* ------------------------------------------------------- several jobs
\* Jobs of one batch each.
FrameInputs == {[inputType |-> "query", rows |-> 0, webhook |-> FALSE]}

FrameSubmitCreate(input) ==
    /\ Len(jobs) < MaxFrameJobs
    /\ SubmitCreate(input)

\* The first call of the executor that fails.
FrameBatchFail(w) ==
    /\ failures = 0
    /\ BatchFail(w)

\* Several jobs, each delivered once, are processed by the workers at the
\* same time; one call of the executor may fail.
FrameNext ==
    \/ \E input \in FrameInputs : FrameSubmitCreate(input)
    \/ SubmitSetQueued
    \/ SubmitEnqueue
    \/ \E w \in Workers : WorkerStep(w)
    \/ \E w \in Workers : FrameBatchFail(w)

FrameSpec == Init /\ [][FrameNext]_vars

\* ------------------------------------------------------ failed enqueue
\* submit_job with a handler of the enqueue error that records the job as failed.
SubmitEnqueueFailMarksFailed ==
    /\ api.pc = "queued"
    /\ jobs' = update_job_status(api.job_input.job_id, "failed", "Failed to submit job")
    /\ clock' = Tick
    /\ api' = [pc |-> "idle", job_input |-> NoJob]
    /\ UNCHANGED <<ret, aux, batches, queue, files, pc, locals, history, failures, env>>

\* submit_job line 286 raises (redis is unreachable): lines 293-295 log the
\* error and answer 500; the job row is left as it is.
SubmitEnqueueFail ==
    /\ api.pc = "queued"
    /\ api' = [pc |-> "idle", job_input |-> NoJob]
    /\ UNCHANGED <<ret, aux, store, queue, files, clock, pc, locals, history, failures, env>>

\* Several submissions, whose enqueue may fail, and several workers.
SubmitNext ==
    \/ \E input \in QueueInputs : QueueSubmitCreate(input)
    \/ SubmitSetQueued
    \/ SubmitEnqueue
    \/ SubmitEnqueueFail
    \/ \E w \in Workers : QueueWorker(w)

SubmitSpec == Init /\ [][SubmitNext]_vars

\* ------------------------------------------------- get_connection
\* pool.idle is the Queue of idle connections, pool.conn[t] the connection
\* thread t holds (0: none); connections are numbered.
At(t, where) == [pool EXCEPT !.at[t] = where]

\* The connections that are in the queue or held by a thread.
Live == {pool.idle[i] : i \in DOMAIN pool.idle} \cup {pool.conn[t] : t \in Threads}

\* _create_connection: a connection that is none of the live ones.
NewConn == CHOOSE c \in 1..(max_connections + NumThreads + 1) :
               /\ c \notin Live
               /\ \A d \in 1..(max_connections + NumThreads + 1) : d \notin Live => c <= d

\* A thread calls get_connection (line 86): conn = None, then pool.get.
PoolEnter(t) ==
    /\ pool.at[t] = "out"
    /\ pool' = At(t, "get")
    /\ UNCHANGED <<core, tx, posts, plan>>

\* pool.get that hands out the head of the queue and leaves it in the queue.
PoolGetPeek(t) ==
    /\ pool.at[t] = "get"
    /\ pool.idle # << >>
    /\ pool' = [At(t, "body") EXCEPT !.conn[t] = Head(pool.idle)]
    /\ UNCHANGED <<core, tx, posts, plan>>

\* Line 91: pool.get(timeout=5.0) takes the head of the queue; line 92
\* yields it.
PoolGet(t) ==
    /\ pool.at[t] = "get"
    /\ pool.idle # << >>
    /\ pool' = [At(t, "body") EXCEPT !.idle = Tail(pool.idle), !.conn[t] = Head(pool.idle)]
    /\ UNCHANGED <<core, tx, posts, plan>>

\* Lines 93-97: the pool stayed empty for 5 seconds, Empty is raised and a
\* temporary connection is opened and yielded.
PoolGetTimeout(t) ==
    /\ pool.at[t] = "get"
    /\ pool.idle = << >>
    /\ pool' = [At(t, "body") EXCEPT !.conn[t] = NewConn]
    /\ UNCHANGED <<core, tx, posts, plan>>

\* The with block ends; finally, lines 102-106: SELECT 1 answers and
\* pool.qsize() is read: the connection goes back if the pool is not full,
\* else it is closed.
PoolLeave(t) ==
    /\ pool.at[t] = "body"
    /\ pool' = IF Len(pool.idle) < max_connections
               THEN At(t, "put")
               ELSE [At(t, "out") EXCEPT !.conn[t] = 0]
    /\ UNCHANGED <<core, tx, posts, plan>>

\* The with block ends; finally, lines 102-109: SELECT 1 raises, the bare
\* except closes the connection.
PoolLeaveUnhealthy(t) ==
    /\ pool.at[t] = "body"
    /\ pool' = [At(t, "out") EXCEPT !.conn[t] = 0]
    /\ UNCHANGED <<core, tx, posts, plan>>

\* Line 107: pool.put(conn), which waits while the queue of maxsize
\* max_connections is full.
PoolPut(t) ==
    /\ pool.at[t] = "put"
    /\ Len(pool.idle) < max_connections
    /\ pool' = [At(t, "out") EXCEPT !.idle = Append(pool.idle, pool.conn[t]), !.conn[t] = 0]
    /\ UNCHANGED <<core, tx, posts, plan>>

PoolThread(t) ==
    \/ PoolEnter(t)
    \/ PoolGet(t)
    \/ PoolGetTimeout(t)
    \/ PoolLeave(t)
    \/ PoolLeaveUnhealthy(t)
    \/ PoolPut(t)

\* Threads enter and leave get_connection in any interleaving.
PoolNext == \E t \in Threads : PoolThread(t)

PoolSpec == Init /\ [][PoolNext]_vars /\ \A t \in Threads : WF_vars(PoolThread(t))

\* ------------------------------------------------------- Job Store API
\* The Job Store called directly, with arguments of any type and value.
JobStatuses == {"queued", "running", "finished", "failed"}
BatchStatuses == {"pending", "running", "finished", "failed"}

\* input_json arguments: a dictionary, its JSON text, or None.
StoreDocs == {[inputType |-> "query", rows |-> 0, webhook |-> FALSE]}
InputValues == [type : {"dict", "str", "NoneType"}, doc : StoreDocs]

OwnerValues == {PyNone, PyStr(""), PyStr("a@example.com"), PyStr("b@example.com"), PyInt(7)}
\* Ids: 0, every row's id, one id past the rows, and a string.
IdValues == {PyInt(n) : n \in 0..(MaxStoreRows + 1)} \cup {PyStr("1")}
\* Statuses: "pending" is no job status, "queued" no batch status, None no string.
StatusValues == {PyStr(st) : st \in JobStatuses \cup BatchStatuses} \cup {PyNone}
MsgValues == {NoMsg, "boom"}

\* "not isinstance(x, int) or x <= 0" (lines 176, 222, 253, 275), negated.
PositiveInt(v) == v.type = "int" /\ v.n > 0

\* The message of the ValueError a call raises, "" when validation passes.
\* create_job lines 154-157 without the test of input_json.
create_job_error_owner_only(input_json, owner_email) ==
    IF truthy(owner_email) /\ owner_email.type # "str"
    THEN "owner_email must be a string"
    ELSE ""

\* create_job lines 154-157 with the owner test written "not owner_email or".
create_job_error_falsy_owner(input_json, owner_email) ==
    IF input_json.type # "dict" THEN "input_json must be a dictionary"
    ELSE IF ~truthy(owner_email) \/ owner_email.type # "str"
    THEN "owner_email must be a string"
    ELSE ""

\* create_job lines 154-157.
create_job_error(input_json, owner_email) ==
    IF input_json.type # "dict" THEN "input_json must be a dictionary"
    ELSE IF truthy(owner_email) /\ owner_email.type # "str"
    THEN "owner_email must be a string"
    ELSE ""

\* update_job_status lines 176-179 without the test of job_id.
update_job_status_error_status_only(job_id, status) ==
    IF status.type # "str" \/ status.s \notin JobStatuses
    THEN "status must be one of: queued, running, finished, failed"
    ELSE ""

\* update_job_status lines 176-179.
update_job_status_error(job_id, status) ==
    IF ~PositiveInt(job_id) THEN "job_id must be a positive integer"
    ELSE IF status.type # "str" \/ status.s \notin JobStatuses
    THEN "status must be one of: queued, running, finished, failed"
    ELSE ""

\* update_batch_status lines 275-278.
update_batch_status_error(batch_id, status) ==
    IF ~PositiveInt(batch_id) THEN "batch_id must be a positive integer"
    ELSE IF status.type # "str" \/ status.s \notin BatchStatuses
    THEN "status must be one of: pending, running, finished, failed"
    ELSE ""

\* create_batch lines 253-258 (batch_index and input_path are valid here).
create_batch_error(job_id) ==
    IF ~PositiveInt(job_id) THEN "job_id must be a positive integer" ELSE ""

\* get_job lines 222-223.
get_job_error(job_id) ==
    IF ~PositiveInt(job_id) THEN "job_id must be a positive integer" ELSE ""

\* get_job lines 225-229: dict(row) if row else None.
get_job(job_id) == IF job_id \in DOMAIN jobs THEN <<jobs[job_id]>> ELSE << >>

\* The budgets of the direct calls: rows of both tables together, and
\* job-row writes (clock counts them: the time read by a call is seen only in
\* the timestamps it writes, so an update that matches no row leaves it).
CanInsert == Len(jobs) + Len(batches) < MaxStoreRows
CanWrite == clock <= MaxStoreWrites

\* create_job, whole call.
DoCreateJob(input_json, owner_email) ==
    /\ IF create_job_error(input_json, owner_email) # ""
       THEN /\ ret' = Raise("create_job", create_job_error(input_json, owner_email))
            /\ UNCHANGED <<jobs, clock>>
       ELSE /\ jobs' = Append(jobs, NewJobRow(input_json.doc, owner_email))
            /\ clock' = Tick
            /\ ret' = ReturnId("create_job", Len(jobs) + 1)
    /\ UNCHANGED <<aux, batches, queue, files, api, pc, locals, history, failures, crashes,
                   redeliveries, recovered, faults>>

CallCreateJob(input_json, owner_email) ==
    /\ create_job_error(input_json, owner_email) = "" => CanInsert /\ CanWrite
    /\ DoCreateJob(input_json, owner_email)

CallGetJob(job_id) ==
    /\ ret' = IF get_job_error(job_id) # "" THEN Raise("get_job", get_job_error(job_id))
              ELSE ReturnRow("get_job", get_job(job_id.n))
    /\ UNCHANGED <<aux, store, clock, queue, files, api, pc, locals, history, failures, crashes,
                   redeliveries, recovered, faults>>

CallUpdateJobStatus(job_id, status, error_msg) ==
    /\ IF update_job_status_error(job_id, status) # ""
       THEN /\ ret' = Raise("update_job_status", update_job_status_error(job_id, status))
            /\ UNCHANGED <<jobs, clock>>
       ELSE /\ job_id.n \in DOMAIN jobs => CanWrite
            /\ jobs' = update_job_status(job_id.n, status.s, error_msg)
            /\ clock' = IF job_id.n \in DOMAIN jobs THEN Tick ELSE clock
            /\ ret' = ReturnRow("update_job_status", << >>)
    /\ UNCHANGED <<aux, batches, queue, files, api, pc, locals, history, failures, crashes,
                   redeliveries, recovered, faults>>

CallCreateBatch(job_id, batch_index) ==
    /\ IF create_batch_error(job_id) # ""
       THEN /\ ret' = Raise("create_batch", create_batch_error(job_id))
            /\ UNCHANGED batches
       ELSE /\ CanInsert
            /\ batches' = create_batch(job_id.n, batch_index, <<"csv", batch_index>>)
            /\ ret' = ReturnId("create_batch", Len(batches) + 1)
    /\ UNCHANGED <<aux, jobs, clock, queue, files, api, pc, locals, history, failures, crashes,
                   redeliveries, recovered, faults>>

CallUpdateBatchStatus(batch_id, status, error_msg) ==
    /\ IF update_batch_status_error(batch_id, status) # ""
       THEN /\ ret' = Raise("update_batch_status", update_batch_status_error(batch_id, status))
            /\ UNCHANGED batches
       ELSE /\ batches' = update_batch_status(batch_id.n, status.s, error_msg)
            /\ ret' = ReturnRow("update_batch_status", << >>)
    /\ UNCHANGED <<aux, jobs, clock, queue, files, api, pc, locals, history, failures, crashes,
                   redeliveries, recovered, faults>>

StoreNext ==
    \/ \E input_json \in InputValues, owner_email \in OwnerValues :
           CallCreateJob(input_json, owner_email)
    \/ \E job_id \in IdValues : CallGetJob(job_id)
    \/ \E job_id \in IdValues, status \in StatusValues, error_msg \in MsgValues :
           CallUpdateJobStatus(job_id, status, error_msg)
    \/ \E job_id \in IdValues : CallCreateBatch(job_id, 0)
    \/ \E batch_id \in IdValues, status \in StatusValues, error_msg \in MsgValues :
           CallUpdateBatchStatus(batch_id, status, error_msg)

StoreSpec == Init /\ [][StoreNext]_vars

\* ------------------------------------------------------- executor hangs
\* run_batch lines 81-86: subprocess.run(..., check=True) is given no
\* timeout; while the child process does not exit the call does not return.
BatchHang(w) ==
    /\ pc[w] = "executing"
    /\ pc' = Set(pc, w, "hung")
    /\ UNCHANGED <<ret, aux, store, queue, files, clock, api, locals, history, failures, env>>

\* The steps of a worker whose executor may succeed, fail or never return.
HangWorker(w) ==
    \/ WorkerStep(w)
    \/ BatchFail(w)
    \/ BatchHang(w)

\* One job, delivered once.
HangNext ==
    \/ \E input \in RunInputs : jobs = << >> /\ SubmitCreate(input)
    \/ SubmitSetQueued
    \/ SubmitEnqueue
    \/ \E w \in Workers : HangWorker(w)

HangSpec == Init /\ [][HangNext]_vars

\* ---------------------------------------------------------- notification
\* Submissions that carry a webhook (server.py line 95).
NotifyInputs ==
    {[inputType |-> "query", rows |-> 0, webhook |-> TRUE],
     [inputType |-> "none", rows |-> 0, webhook |-> TRUE]}

NotifyWorker(w) ==
    \/ WorkerStep(w)
    \/ PostWebhook(w)
    \/ PostWebhookFail(w)

\* One job with a webhook, whose descriptor may be delivered again and whose
\* executor may fail.
NotifyNext ==
    \/ \E input \in NotifyInputs : jobs = << >> /\ SubmitCreate(input)
    \/ SubmitSetQueued
    \/ SubmitEnqueue
    \/ \E w \in Workers : NotifyWorker(w)
    \/ \E w \in Workers : BoundedBatchFail(w)
    \/ \E j \in 1..MaxJobs : Redeliver(j)

NotifySpec == Init /\ [][NotifyNext]_vars

\* The inputs of the undisturbed run, each with a webhook.
NotifyRunInputs == {[input EXCEPT !.webhook = TRUE] : input \in RunInputs}

\* One job with a webhook, delivered once; the executor may fail at every call.
NotifyOnceNext ==
    \/ \E input \in NotifyRunInputs : jobs = << >> /\ SubmitCreate(input)
    \/ SubmitSetQueued
    \/ SubmitEnqueue
    \/ \E w \in Workers : NotifyWorker(w)
    \/ \E w \in Workers : BatchFail(w)

NotifyOnceSpec == Init /\ [][NotifyOnceNext]_vars

\* -------------------------------------------------------------- planning
\* Row counts and batch sizes of the tabular inputs that are planned: the
\* small ones, and files of up to three batches of the configured size.
PlanCases ==
    ((0..MaxPlanRows) \X (1..MaxPlanSize))
        \cup ({0, 1, 5000, 10000, 10001, 20000, 25000, 30000} \X {BATCH_SIZE})

\* batch_csv(input_path, output_dir, batch_size) on a file of n rows.
PlanBatch(n, batch_size) ==
    /\ plan.at = "new"
    /\ <<n, batch_size>> \in PlanCases
    /\ plan' = [plan EXCEPT !.at = "planned", !.n = n, !.batch_size = batch_size,
                            !.slices = batch_slices(n, batch_size)]
    /\ UNCHANGED <<core, pool, tx, posts>>

\* The records an executor may return for a batch: one per input row, or none.
RecordCounts(sl) == {0, SliceRows(sl)}

\* run_batch lines 81-111 on the next batch: the executor succeeds and
\* returns some number of records, each one row of the output file.
PlanRun ==
    /\ plan.at = "planned"
    /\ Len(plan.outs) < Len(plan.slices)
    /\ \E records \in RecordCounts(plan.slices[Len(plan.outs) + 1]) :
          plan' = [plan EXCEPT !.outs = Append(plan.outs, records)]
    /\ UNCHANGED <<core, pool, tx, posts>>

\* merge_excel over the outputs of the finished batches.
PlanMerge ==
    /\ plan.at = "planned"
    /\ Len(plan.outs) = Len(plan.slices)
    /\ plan' = [plan EXCEPT !.at = "merged", !.merged = concat_rows(plan.outs)]
    /\ UNCHANGED <<core, pool, tx, posts>>

\* One tabular job all of whose batches succeed at the first attempt.
PlanNext ==
    \/ \E c \in PlanCases : PlanBatch(c[1], c[2])
    \/ PlanRun
    \/ PlanMerge

PlanSpec == Init /\ [][PlanNext]_vars

\* --------------------------------------------------------- transactions
\* The six writes of the Job Store, each one statement inside transaction().
WriteOps == {"create_job", "update_job_status", "save_job_result",
             "create_batch", "update_batch_status", "save_batch_output"}

\* Arguments that pass the validation of the write.
TxArgs(op) ==
    [id : 1..(MaxStoreRows + 1),
     status : IF op = "update_job_status" THEN JobStatuses
              ELSE IF op = "update_batch_status" THEN BatchStatuses
              ELSE {"queued"},
     msg : IF op \in {"update_job_status", "update_batch_status"} THEN MsgValues
           ELSE {NoMsg}]

\* The rows after the statement of the write: <<jobs, batches>>.
Statement(op, a) ==
    CASE op = "create_job" ->
             <<Append(jobs, NewJobRow([inputType |-> "query", rows |-> 0, webhook |-> FALSE], SubmitOwner)),
               batches>>
      [] op = "update_job_status" -> <<update_job_status(a.id, a.status, a.msg), batches>>
      [] op = "save_job_result" ->
             <<save_job_result(a.id, [present |-> TRUE, final_xlsx |-> a.id,
                                      batches |-> << >>]), batches>>
      [] op = "create_batch" -> <<jobs, create_batch(a.id, 0, <<"csv", 0>>)>>
      [] op = "update_batch_status" -> <<jobs, update_batch_status(a.id, a.status, a.msg)>>
      [] op = "save_batch_output" -> <<jobs, save_batch_output(a.id, output_xlsx(a.id, 0))>>

\* What the write returns: the new id of an INSERT, None of an UPDATE.
Returned(op) ==
    CASE op = "create_job" -> ReturnId(op, Len(tx.work[1]))
      [] op = "create_batch" -> ReturnId(op, Len(tx.work[2]))
      [] OTHER -> ReturnRow(op, << >>)

TxIdle == tx.at \in {"none", "committed", "rolled_back"}

\* transaction() line 142: BEGIN TRANSACTION on a pooled connection.
TxBegin(op) ==
    /\ TxIdle
    /\ tx' = [at |-> "begun", op |-> op, before |-> store, work |-> store]
    /\ UNCHANGED <<core, pool, posts, plan>>

\* The INSERT or UPDATE of the write, seen by its own connection only.
TxExecute ==
    /\ tx.at = "begun"
    /\ \E a \in TxArgs(tx.op) :
          /\ tx.op \in {"create_job", "create_batch"} => CanInsert
          /\ tx.op = "create_job" \/ (tx.op = "update_job_status" /\ a.id \in DOMAIN jobs)
                 => CanWrite
          /\ tx' = [tx EXCEPT !.at = "executed", !.work = Statement(tx.op, a)]
    /\ UNCHANGED <<core, pool, posts, plan>>

\* transaction() line 144: COMMIT; the write returns.
TxCommit ==
    /\ tx.at = "executed"
    /\ jobs' = tx.work[1]
    /\ batches' = tx.work[2]
    /\ clock' = IF jobs' # jobs /\ tx.op \in {"create_job", "update_job_status"}
                THEN Tick ELSE clock
    /\ tx' = [tx EXCEPT !.at = "committed"]
    /\ ret' = Returned(tx.op)
    /\ UNCHANGED <<qhist, pool, posts, plan, queue, files, api, pc, locals, history,
                   failures, env>>

\* transaction() lines 146-149 with the ROLLBACK left out: the statement
\* that was executed stays.
TxFailNoRollback(error) ==
    /\ tx.at \in {"begun", "executed"}
    /\ jobs' = tx.work[1]
    /\ batches' = tx.work[2]
    /\ tx' = [tx EXCEPT !.at = "rolled_back"]
    /\ ret' = Raise(tx.op, error)
    /\ UNCHANGED <<qhist, pool, posts, plan, queue, files, clock, api, pc, locals, history,
                   failures, env>>

\* transaction() lines 146-149: the statement or the COMMIT raises; ROLLBACK,
\* and the exception goes on to the caller (lines 169-171 and alike: log, raise).
TxFail(error) ==
    /\ tx.at \in {"begun", "executed"}
    /\ tx' = [tx EXCEPT !.at = "rolled_back"]
    /\ ret' = Raise(tx.op, error)
    /\ UNCHANGED <<qhist, pool, posts, plan, store, queue, files, clock, api, pc, locals,
                   history, failures, env>>

\* One caller writes to the store; any step of a write may fail.
TxNext ==
    \/ \E op \in WriteOps : TxBegin(op)
    \/ TxExecute
    \/ TxCommit
    \/ \E error \in StoreErrors : TxFail(error)

TxSpec == Init /\ [][TxNext]_vars

\* ------------------------------------------------------------ list_jobs
\* list_jobs lines 238-240: a truthy owner must be a string.
list_jobs_error(owner_email) ==
    IF truthy(owner_email) /\ owner_email.type # "str"
    THEN "owner_email must be a string"
    ELSE ""

\* WHERE owner_email=? (a NULL owner equals nothing); no WHERE for a falsy owner.
Listed(row, owner_email) ==
    truthy(owner_email) => row.owner_email.type = "str" /\ row.owner_email.s = owner_email.s

\* list_jobs with ORDER BY id ASC.
RECURSIVE list_jobs_asc(_, _)
list_jobs_asc(owner_email, i) ==
    IF i = 0 THEN << >>
    ELSE list_jobs_asc(owner_email, i - 1)
             \o (IF Listed(jobs[i], owner_email) THEN <<jobs[i]>> ELSE << >>)

\* list_jobs lines 241-244: the listed rows from id i down, ORDER BY id DESC.
RECURSIVE list_jobs(_, _)
list_jobs(owner_email, i) ==
    IF i = 0 THEN << >>
    ELSE (IF Listed(jobs[i], owner_email) THEN <<jobs[i]>> ELSE << >>)
             \o list_jobs(owner_email, i - 1)

CallListJobs(owner_email) ==
    /\ ret' = IF list_jobs_error(owner_email) # ""
              THEN Raise("list_jobs", list_jobs_error(owner_email))
              ELSE ReturnRow("list_jobs", list_jobs(owner_email, Len(jobs)))
    /\ UNCHANGED <<aux, store, clock, queue, files, api, pc, locals, history, failures, crashes,
                   redeliveries, recovered, faults>>

\* create_job while the table is below the bound of this specification.
ListCreateJob(input_json, owner_email) ==
    /\ Len(jobs) < MaxListJobs
    /\ DoCreateJob(input_json, owner_email)

\* Jobs of any owner are created and listed.
ListNext ==
    \/ \E input_json \in InputValues, owner_email \in OwnerValues :
           ListCreateJob(input_json, owner_email)
    \/ \E owner_email \in OwnerValues : CallListJobs(owner_email)

ListSpec == Init /\ [][ListNext]_vars

\* ================================================================ claims
Terminal == {"finished", "failed"}

\* The job ids that have a row.
JobIds == DOMAIN jobs

\* The positions of process_job after the registration loop (line 152 on).
AfterRegister ==
    {"get_batches", "next_batch", "mark_running", "run_batch", "executing",
     "mark_finished", "save_output", "mark_failed", "merge", "set_finished",
     "save_result"}

\* C1: a job's status only moves queued -> running -> finished | failed: no
\* step takes it from running back to queued or out of finished or failed.
StatusStepOk(a, b) ==
    \/ a = b
    \/ a = "queued" /\ b = "running"
    \/ a = "running" /\ b \in Terminal

C1_StatusMonotonic ==
    [][\A j \in JobIds : StatusStepOk(jobs[j].status, jobs'[j].status)]_vars

\* C2: once a job is finished or failed, no step changes its finished_at.
C2_FinishedAtWriteOnce ==
    [][\A j \in JobIds :
          jobs[j].status \in Terminal => jobs'[j].finished_at = jobs[j].finished_at]_vars

\* C3: once a job's started_at is set, no step changes it.
C3_StartedAtWriteOnce ==
    [][\A j \in JobIds :
          jobs[j].started_at # NoTime => jobs'[j].started_at = jobs[j].started_at]_vars

\* C4: no two workers are inside the executor for the same batch row at the
\* same time.
C4_OneInFlightPerBatch ==
    \A v, w \in Workers :
        (v # w /\ pc[v] = "executing" /\ pc[w] = "executing") => cur(v).id # cur(w).id

\* C5: a run of process_job that found batch rows of its job at entry
\* creates no batch row.
C5_PlanningIdempotent ==
    [][\A w \in Workers : startCount[w] > 0 => ~RegisterBatch(w)]_vars

\* C6: the rows get_batches returns for a job have the batch_index values
\* 0, 1, 2, ... in this order, each once, and once a worker is past the
\* registration of a job planned into N batches there are exactly N of them.
C6_BatchIndexContiguous ==
    /\ \A j \in JobIds :
           \A i \in DOMAIN get_batches(j) : get_batches(j)[i].batch_index = i - 1
    /\ \A w \in Workers :
           pc[w] \in AfterRegister =>
               Len(get_batches(job[w].job_id)) = PlannedFiles(job[w])

\* C7: the run that processes a job again after its worker crashed never
\* starts the executor for a batch index that had a finished batch with an
\* existing output when the run began.
C7_NoRerunOfFinished ==
    \A w \in Workers :
        (recovered /\ pc[w] = "executing") => cur(w).batch_index \notin doneAtStart[w]

\* The result a job planned into n batches has when every batch contributed
\* one output: the output paths of the indexes 0..n-1 in order.
OnePerIndex(job_id, n) == [i \in 1..n |-> output_xlsx(job_id, i - 1)]

\* C8: when a worker crashed inside process_job, the descriptor was then
\* delivered again and no executor call failed, a finished job's saved result
\* lists one output per batch index 0..N-1.
C8_NoLostWorkAcrossCrash ==
    \A j \in JobIds :
        (/\ recovered
         /\ failures = 0
         /\ jobs[j].status = "finished"
         /\ jobs[j].result.present)
        => jobs[j].result.batches = OnePerIndex(j, PlannedFiles(jobs[j].input))

\* C9: in every state, a batch row whose status is finished has its
\* output_path set.
C9_FinishedHasOutput ==
    \A i \in DOMAIN batches :
        batches[i].status = "finished" => batches[i].output_path # NoPath

\* A worker has just left the retry loop of a batch and every executor call
\* it made for the batch failed.
Exhausted(w) ==
    /\ pc[w] = "next_batch"
    /\ invoked[w] > 0
    /\ fails[w] = invoked[w]

\* The batch row a worker has just left.
prev(w) == batches[rows[w][pos[w] - 1].id]

C10_Safe ==
    \A w \in Workers :
        /\ invoked[w] <= MAX_RETRIES
        /\ Exhausted(w) =>
               /\ invoked[w] = MAX_RETRIES
               /\ prev(w).status = "failed"
               /\ prev(w).error_msg \notin {NoMsg, ""}
        /\ pc[w] \in {"merge", "set_finished", "save_result"} =>
               \A i \in DOMAIN batches :
                   (/\ batches[i].job_id = job[w].job_id
                    /\ output_xlsx(batches[i].job_id, batches[i].batch_index) \notin xlsx)
                   => /\ batches[i].status = "failed"
                      /\ batches[i].error_msg \notin {NoMsg, ""}

C10_Live ==
    \A j \in 1..MaxJobs :
        (\E w \in Workers : job[w].job_id = j /\ Exhausted(w))
            ~> (j \in JobIds /\ jobs[j].status = "finished")

Succeeded(w) ==
    /\ pc[w] = "next_batch"
    /\ invoked[w] > 0
    /\ fails[w] < invoked[w]

\* C11: in an undisturbed run, a batch whose first successful executor call
\* is call k (after k-1 failed calls) gets exactly k calls, k <= MAX_RETRIES,
\* none after the success, and is left finished with its output recorded; it
\* is still finished when the batches are merged.
C11_StopsAtFirstSuccess ==
    \A w \in Workers :
        /\ invoked[w] <= fails[w] + 1
        /\ Succeeded(w) =>
               /\ invoked[w] = fails[w] + 1
               /\ invoked[w] \in 1..MAX_RETRIES
               /\ prev(w).status = "finished"
               /\ prev(w).output_path = output_xlsx(prev(w).job_id, prev(w).batch_index)
        /\ pc[w] \in {"merge", "set_finished", "save_result"} =>
               \A i \in DOMAIN batches :
                   (/\ batches[i].job_id = job[w].job_id
                    /\ output_xlsx(batches[i].job_id, batches[i].batch_index) \in xlsx)
                   => batches[i].status = "finished"

\* Two failed executor calls, then the third succeeded and the batch is
\* finished.
C11_Witness ==
    \E w \in Workers :
        /\ Succeeded(w)
        /\ fails[w] = MAX_RETRIES - 1
        /\ invoked[w] = MAX_RETRIES
        /\ prev(w).status = "finished"

\* The batch indexes of a job that have a finished row.
FinishedIndexes(job_id) ==
    {batches[i].batch_index : i \in {k \in DOMAIN batches :
        batches[k].job_id = job_id /\ batches[k].status = "finished"}}

\* The output files of a set of batch indexes, by ascending index.
RECURSIVE AscendingOutputs(_, _)
AscendingOutputs(job_id, S) ==
    IF S = {} THEN << >>
    ELSE LET m == CHOOSE x \in S : \A y \in S : x <= y
         IN  <<output_xlsx(job_id, m)>> \o AscendingOutputs(job_id, S \ {m})

ExpectedMerge(job_id) == AscendingOutputs(job_id, FinishedIndexes(job_id))

\* C12: in an undisturbed run, what is merged and saved as the job's result
\* is the outputs of exactly the finished batches, by ascending batch_index;
\* the final artifact written from them has the same content; a failed batch
\* has no entry.
C12_MergeOfFinishedInOrder ==
    /\ \A w \in Workers :
           pc[w] \in {"set_finished", "save_result"} =>
               /\ batch_outputs[w] = ExpectedMerge(job[w].job_id)
               /\ batch_outputs[w] # << >> =>
                      finals[job[w].job_id] =
                          [exists |-> TRUE, content |-> ExpectedMerge(job[w].job_id)]
    /\ \A j \in JobIds :
           jobs[j].result.present => jobs[j].result.batches = ExpectedMerge(j)

\* A saved result of two outputs, of indexes 0 and 2, while batch 1 is failed.
C12_Witness ==
    \E j \in JobIds :
        /\ jobs[j].result.present
        /\ jobs[j].result.batches = <<output_xlsx(j, 0), output_xlsx(j, 2)>>
        /\ finals[j].content = <<output_xlsx(j, 0), output_xlsx(j, 2)>>
        /\ \E i \in DOMAIN batches :
               /\ batches[i].job_id = j
               /\ batches[i].batch_index = 1
               /\ batches[i].status = "failed"

\* C13: a job whose result pointer is saved has the final artifact the
\* pointer names, also when none of its batches is finished.
C13_ResultArtifactExists ==
    \A j \in JobIds :
        jobs[j].result.present => finals[jobs[j].result.final_xlsx].exists

\* C14: in an undisturbed run, when the loop over the batches is left every
\* batch of the job has been attempted to its end (finished or failed), also
\* those after a failed one, and a job that has batches is never set failed.
C14_BatchFailureIsolated ==
    /\ \A w \in Workers :
           pc[w] \in {"merge", "set_finished", "save_result"} =>
               \A i \in DOMAIN batches :
                   batches[i].job_id = job[w].job_id =>
                       batches[i].status \in {"finished", "failed"}
    /\ \A i \in DOMAIN batches : jobs[batches[i].job_id].status # "failed"

\* A finished job whose batch 0 is failed and whose batch 1 is finished.
C14_Witness ==
    \E j \in JobIds :
        /\ jobs[j].status = "finished"
        /\ \E i, k \in DOMAIN batches :
               /\ batches[i].job_id = j /\ batches[k].job_id = j
               /\ batches[i].batch_index = 0 /\ batches[i].status = "failed"
               /\ batches[k].batch_index = 1 /\ batches[k].status = "finished"

\* Nothing is left to run: no submission in progress, the queue is empty
\* and every worker is waiting for a job or has ended.
Quiescent ==
    /\ api.pc = "idle"
    /\ queue = << >>
    /\ \A w \in Workers : pc[w] \in {"idle", "dead"}

\* C15: when a Job Store call made for a dequeued job has raised, the job is
\* left failed with the captured error message once its handling is over.
C15_StoreErrorFailsJob ==
    (Quiescent /\ storeFaults > 0) =>
        \A j \in JobIds :
            /\ jobs[j].status = "failed"
            /\ jobs[j].error_msg \in StoreErrors

\* The jobs whose descriptor has neither a tabular input nor a query.
NoInputJobs == {j \in JobIds : jobs[j].input.inputType = "none"}

C16_Safe ==
    \A j \in NoInputJobs :
        /\ \A i \in DOMAIN batches : batches[i].job_id # j
        /\ \A w \in Workers : job[w].job_id = j => invoked[w] = 0 /\ pc[w] # "executing"
        /\ \A f \in xlsx : f[1] # j
        /\ jobs[j].status # "finished"
        /\ jobs[j].status = "failed" => jobs[j].error_msg \notin {NoMsg, ""}

C16_Live ==
    \A j \in 1..MaxJobs :
        (\E w \in Workers : job[w].job_id = j /\ job[w].inputType = "none"
                            /\ pc[w] = "set_running")
            ~> (j \in JobIds /\ jobs[j].status = "failed")

\* C16: in an undisturbed run, a job whose descriptor has no valid input
\* gets no batch row and no executor call, never has status finished, and
\* ends failed with a non-empty error message.
C16_NoInputJobFails == []C16_Safe /\ C16_Live

\* A job with no valid input is failed with the message of line 144 and its
\* worker is back at the queue.
C16_Witness ==
    \E j \in NoInputJobs :
        /\ jobs[j].status = "failed"
        /\ jobs[j].error_msg = "No valid input for job"
        /\ \A w \in Workers : pc[w] = "idle"

\* C17: when create_job has just returned an id for a dictionary input and
\* an accepted owner, get_job on that id returns the row with that id, status
\* queued, and started_at and finished_at unset.
C17_CreateThenGet ==
    [][(/\ ret.op = "create_job"
        /\ ret.raised = ""
        /\ CallGetJob(PyInt(ret.id)))
       => /\ ret'.raised = ""
          /\ Len(ret'.row) = 1
          /\ ret'.row[1].id = ret.id
          /\ ret'.row[1].status = "queued"
          /\ ret'.row[1].started_at = NoTime
          /\ ret'.row[1].finished_at = NoTime]_vars

\* get_job has returned the newest row, untouched since its creation.
C17_Witness ==
    /\ ret.op = "get_job"
    /\ Len(ret.row) = 1
    /\ ret.row[1].id = Len(jobs)
    /\ ret.row[1].status = "queued"
    /\ ret.row[1].started_at = NoTime
    /\ clock = ret.row[1].created_at + 1

\* C18: create_job with an input that is not a dictionary raises ValueError
\* and the jobs table is the same before and after the call.
C18_NonDictRejected ==
    [][\A input_json \in InputValues, owner_email \in OwnerValues :
          (input_json.type # "dict" /\ CallCreateJob(input_json, owner_email))
          => /\ ret'.op = "create_job"
             /\ ret'.raised # ""
             /\ jobs' = jobs]_vars

\* create_job has refused a non-dictionary while the table already has a row.
C18_Witness ==
    /\ ret = Raise("create_job", "input_json must be a dictionary")
    /\ jobs # << >>

\* The owners that are absent or the empty string.
NoOwner == {PyNone, PyStr("")}

\* C19 as stated: create_job with an absent or empty owner raises ValueError
\* and creates no job row.
C19_EmptyOwnerRejected ==
    [][\A input_json \in InputValues, owner_email \in NoOwner :
          CallCreateJob(input_json, owner_email)
          => /\ ret'.raised # ""
             /\ jobs' = jobs]_vars

\* C19: create_job with a dictionary input and an absent or empty owner
\* returns the id of a new queued row that stores that owner; an owner that
\* is a non-zero non-string value raises ValueError and creates no row.
C19_OwnerOptional ==
    [][\A input_json \in InputValues, owner_email \in OwnerValues :
          (input_json.type = "dict" /\ CallCreateJob(input_json, owner_email))
          => IF owner_email \in NoOwner
             THEN /\ ret' = ReturnId("create_job", Len(jobs) + 1)
                  /\ Len(jobs') = Len(jobs) + 1
                  /\ jobs'[Len(jobs')].owner_email = owner_email
                  /\ jobs'[Len(jobs')].status = "queued"
             ELSE owner_email.type # "str"
                  => /\ ret' = Raise("create_job", "owner_email must be a string")
                     /\ jobs' = jobs]_vars

\* create_job has just returned the id of a row whose owner is absent or empty.
C19_Witness ==
    /\ ret.op = "create_job"
    /\ ret.raised = ""
    /\ ret.id = Len(jobs)
    /\ jobs[ret.id].owner_email \in NoOwner

\* The calls C20 is about: a status outside the table's set, or an id that
\* is not a positive integer.
BadJobCall(job_id, status) ==
    ~PositiveInt(job_id) \/ status.type # "str" \/ status.s \notin JobStatuses
BadBatchCall(batch_id, status) ==
    ~PositiveInt(batch_id) \/ status.type # "str" \/ status.s \notin BatchStatuses

\* A step is a call of op that did not both raise and leave the store alone.
NotRefused(op) == ret'.op = op /\ (ret'.raised = "" \/ store' # store)

\* C20: update_job_status with an unknown status or a non-positive id, and
\* update_batch_status likewise, raise ValueError and leave every job row
\* and every batch row unchanged: no step that returns normally or changes a
\* row is such a call.
C20_InvalidUpdateRejected ==
    [][/\ NotRefused("update_job_status")
          => \A id \in IdValues, status \in StatusValues, error_msg \in MsgValues :
                 BadJobCall(id, status) => ~CallUpdateJobStatus(id, status, error_msg)
       /\ NotRefused("update_batch_status")
          => \A id \in IdValues, status \in StatusValues, error_msg \in MsgValues :
                 BadBatchCall(id, status) => ~CallUpdateBatchStatus(id, status, error_msg)]_vars

\* An update has been refused for its status while its table holds a row.
C20_Witness ==
    \/ /\ jobs # << >>
       /\ ret = Raise("update_job_status",
                      "status must be one of: queued, running, finished, failed")
    \/ /\ batches # << >>
       /\ ret = Raise("update_batch_status",
                      "status must be one of: pending, running, finished, failed")

\* The calls C21 is about: a status of the table and a positive id of no row.
MissingJobCall(job_id, status) ==
    /\ PositiveInt(job_id) /\ job_id.n \notin DOMAIN jobs
    /\ status.type = "str" /\ status.s \in JobStatuses
MissingBatchCall(batch_id, status) ==
    /\ PositiveInt(batch_id) /\ batch_id.n \notin DOMAIN batches
    /\ status.type = "str" /\ status.s \in BatchStatuses

\* C21: update_job_status and update_batch_status with a valid status and a
\* positive id that matches no row return normally and leave every job row
\* and every batch row unchanged: a step that ends one of the two calls
\* otherwise is no call with such arguments.
C21_MissingIdNoOp ==
    [][/\ \/ ret'.op # "update_job_status"
          \/ ret' = ReturnRow("update_job_status", << >>) /\ store' = store
          \/ \A id \in IdValues, status \in StatusValues :
                MissingJobCall(id, status) =>
                    \A error_msg \in MsgValues : ~CallUpdateJobStatus(id, status, error_msg)
       /\ \/ ret'.op # "update_batch_status"
          \/ ret' = ReturnRow("update_batch_status", << >>) /\ store' = store
          \/ \A id \in IdValues, status \in StatusValues :
                MissingBatchCall(id, status) =>
                    \A error_msg \in MsgValues :
                        ~CallUpdateBatchStatus(id, status, error_msg)]_vars

\* An update has returned normally while the only row of its table is still
\* as create_job (create_batch) wrote it: queued and never finished (pending).
C21_Witness ==
    \/ /\ ret = ReturnRow("update_job_status", << >>)
       /\ Len(jobs) = 1
       /\ jobs[1].status = "queued" /\ jobs[1].created_at = 1 /\ clock = 2
    \/ /\ ret = ReturnRow("update_batch_status", << >>)
       /\ Len(batches) = 1
       /\ batches[1].status = "pending" /\ batches[1].error_msg = NoMsg

\* A sequence of rows in strictly descending id order.
NewestFirst(r) == \A i \in 1..(Len(r) - 1) : r[i].id > r[i + 1].id
RowsOf(r) == {r[i] : i \in DOMAIN r}

\* C22: list_jobs() returns every job row in strictly descending id order;
\* list_jobs(owner) with a non-empty string returns exactly the rows whose
\* owner is that string, in the same order.
C22_ListNewestFirst ==
    [][\A owner_email \in OwnerValues :
          (/\ owner_email = PyNone \/ (owner_email.type = "str" /\ owner_email.s # "")
           /\ CallListJobs(owner_email))
          => /\ ret'.raised = ""
             /\ NewestFirst(ret'.row)
             /\ RowsOf(ret'.row) =
                    IF owner_email = PyNone THEN {jobs[i] : i \in DOMAIN jobs}
                    ELSE {jobs[i] : i \in {k \in DOMAIN jobs : jobs[k].owner_email = owner_email}}]_vars

\* list_jobs has returned two or more rows of a table that holds other rows too.
C22_Witness ==
    /\ ret.op = "list_jobs"
    /\ Len(ret.row) >= 2
    /\ Len(ret.row) < Len(jobs)

\* The workers that hold a dequeued descriptor.
Holding == {w \in Workers : job[w] # NoJob}

\* Every descriptor is delivered in rpush order and at most once: what was
\* delivered, followed by what still waits, is what was enqueued; and no two
\* workers hold the same delivery.
C23_Inv ==
    /\ enqueued = delivered \o queue
    /\ \A v, w \in Holding : v # w => job[v] # job[w]
    /\ \A w \in Holding : \E i \in DOMAIN delivered : delivered[i] = job[w]
    /\ \A w \in Holding : \A i \in DOMAIN queue : queue[i] # job[w]

\* One step hands at most one descriptor, the head of the list, to one worker.
C23_Step ==
    (delivered' # delivered)
        => /\ delivered' = Append(delivered, Head(queue))
           /\ queue' = Tail(queue)
           /\ \E w \in Workers :
                 /\ job[w] = NoJob /\ job'[w] = Head(queue)
                 /\ \A v \in Workers \ {w} : job'[v] = job[v]

\* C23: dequeue returns the descriptors in the order they were enqueued, and
\* with several workers dequeuing each enqueued descriptor goes to at most
\* one dequeue call.
C23_FifoExclusive == []C23_Inv /\ [][C23_Step]_vars

\* Two descriptors waited in the queue together and two workers now hold one each.
C23_Witness ==
    /\ Len(delivered) >= 2
    /\ Cardinality(Holding) = 2
    /\ queue # << >>

\* A step of an idle worker at an empty queue is the return of None: the
\* worker goes to sleep and the queue and the store are as before.
C24_Step ==
    \A w \in Workers :
        (pc[w] = "idle" /\ queue = << >> /\ pc'[w] # "idle")
            => /\ pc'[w] = "sleep"
               /\ job'[w] = NoJob
               /\ queue' = queue
               /\ store' = store

\* C24: at a queue that stays empty dequeue does not block forever: the idle
\* worker leaves the call with no descriptor, queue and store unchanged, and
\* from its sleep it returns to dequeue.
C24_EmptyDequeueReturns ==
    /\ [][C24_Step]_vars
    /\ \A w \in Workers : (pc[w] = "idle" /\ queue = << >>) ~> (pc[w] # "idle")
    /\ \A w \in Workers : (pc[w] = "sleep") ~> (pc[w] = "idle")

\* A worker sleeps after an empty dequeue while a descriptor has been delivered.
C24_Witness ==
    /\ \E w \in Workers : pc[w] = "sleep"
    /\ queue = << >>
    /\ delivered # << >>

\* C25: no caller of get_connection is ever blocked: a thread waiting in
\* pool.get can take a connection or time out to a fresh one, and a thread
\* that returns its connection can put it without waiting for another thread.
C25_PoolNeverBlocks ==
    \A t \in Threads :
        /\ pool.at[t] = "get" => ENABLED (PoolGet(t) \/ PoolGetTimeout(t))
        /\ pool.at[t] = "put" => ENABLED PoolPut(t)

\* C26: a write of the Job Store is all-or-nothing: when it ends by raising,
\* the rows are those from before the call and the caller gets the error;
\* when it returns, the rows are those its statement produced.
C26_WritesAtomic ==
    [][(tx.at \in {"begun", "executed"} /\ tx'.at \notin {"begun", "executed"})
       => \/ /\ ret'.raised \in StoreErrors
             /\ ret'.op = tx.op
             /\ store' = tx.before
          \/ /\ ret' = Returned(tx.op)
             /\ tx.at = "executed"
             /\ store' = tx.work]_vars

\* A write whose statement had changed a row has failed and been rolled
\* back, with a row in the store.
C26_Witness ==
    /\ tx.at = "rolled_back"
    /\ tx.work # tx.before
    /\ store = tx.before
    /\ jobs # << >>
    /\ ret.raised \in StoreErrors

\* C27: when the POST of the webhook fails for a job that was marked
\* finished, the worker is back at the top of its loop, no row of the store
\* has changed and the job is still finished.
C27_NotifyFailureKeepsStatus ==
    [][\A w \in Workers :
          (pc[w] = "webhook" /\ pc'[w] = "idle" /\ posts' = posts)
              => /\ jobs[job[w].job_id].status = "finished"
                 /\ jobs' = jobs
                 /\ jobs'[job[w].job_id].status = "finished"]_vars

\* A POST has failed for a finished job and every worker is idle again.
C27_Witness ==
    /\ posts = << >>
    /\ \A w \in Workers : pc[w] = "idle"
    /\ redeliveries = 0
    /\ \E j \in DOMAIN jobs :
          /\ jobs[j].status = "finished"
          /\ jobs[j].input.webhook
          /\ jobs[j].result.present

PostsOf(job_id) == {i \in DOMAIN posts : posts[i].job_id = job_id}

\* C28: at most one notification is sent per job, whatever the deliveries
\* and runs of the job.
C28_NotifyOncePerJob ==
    \A j \in DOMAIN jobs : Cardinality(PostsOf(j)) <= 1

Ceil(n, b) == (n + b - 1) \div b

\* The sizes of the planned slices, in order.
SliceSizes == [i \in DOMAIN plan.slices |-> SliceRows(plan.slices[i])]

\* The planner's half of C29: ceil(n/b) batches in order, batch i holding
\* rows i*b .. min((i+1)*b, n)-1, at most b rows each, only the last with
\* fewer, sizes summing to n.
PlannerExact ==
    plan.at # "new" =>
        LET n == plan.n
            b == plan.batch_size
            k == Len(plan.slices)
        IN  /\ k = Ceil(n, b)
            /\ k = batch_csv(n, b)
            /\ \A i \in 1..k :
                  /\ plan.slices[i].first = (i - 1) * b
                  /\ plan.slices[i].last = (IF i * b < n THEN i * b ELSE n) - 1
                  /\ SliceSizes[i] >= 1
                  /\ SliceSizes[i] <= b
                  /\ i < k => SliceSizes[i] = b
            /\ concat_rows(SliceSizes) = n
            /\ (n = 25000 /\ b = 10000) => SliceSizes = <<10000, 10000, 5000>>

C30_HungExecutorIsEnded ==
    \A w \in Workers : pc[w] = "hung" => ENABLED HangWorker(w)

\* The list a run iterates is in ascending batch_index order.
C31_Inv ==
    \A w \in Workers : \A p, q \in DOMAIN rows[w] :
        p < q => rows[w][p].batch_index <= rows[w][q].batch_index

\* Within a run the list is not read again and the position in it never
\* goes back; the executor is invoked for the row at the position.
C31_Step ==
    \A w \in Workers :
        /\ (pc[w] \notin {"idle", "get_batches"} /\ pc'[w] # "idle")
              => rows'[w] = rows[w] /\ pos'[w] >= pos[w]
        /\ invoked'[w] = invoked[w] + 1
              => pos'[w] = pos[w] /\ pos[w] \in DOMAIN rows[w]

\* C31: within one run of process_job the executor invocations go through
\* the batches in ascending batch_index order: an invocation for index j is
\* followed by invocations for indexes >= j only.
C31_AscendingBatchOrder == []C31_Inv /\ [][C31_Step]_vars

\* The executor is invoked for the third batch index of a run.
C31_Witness ==
    \E w \in Workers :
        /\ pc[w] = "executing"
        /\ pos[w] = 3
        /\ cur(w).batch_index = 2

\* C32: the k-th failed attempt of a batch is followed by a wait of
\* BASE_DELAY * k seconds (10, then 20 before the second and the third
\* attempt), so the waits of one batch are strictly increasing, and attempt
\* a starts after a - 1 such waits.
C32_LinearBackoff ==
    \A w \in Workers :
        /\ \A k \in DOMAIN slept[w] :
              /\ slept[w][k] = 10 * k
              /\ k > 1 => slept[w][k] > slept[w][k - 1]
        /\ Len(slept[w]) \in {fails[w] - 1, fails[w]}
        /\ pc[w] = "mark_failed" => Len(slept[w]) = fails[w] - 1
        /\ pc[w] \in {"mark_running", "run_batch", "executing"}
              => Len(slept[w]) = attempt[w] - 1 /\ fails[w] = attempt[w] - 1

\* The third attempt of a batch is running after waits of 10 and 20 seconds.
C32_Witness ==
    \E w \in Workers :
        /\ pc[w] = "executing"
        /\ attempt[w] = 3
        /\ slept[w] = <<10, 20>>

\* C33: no failure of a single job stops the worker loop: whatever a job's
\* processing or its store updates raise, the worker that dequeued it is
\* never left outside its loop.
C33_WorkerLoopSurvives ==
    \A w \in Workers : pc[w] # "dead"

\* A job whose submission is over and whose descriptor was never enqueued.
Orphan(j) ==
    /\ j \in DOMAIN jobs
    /\ api.job_input.job_id # j
    /\ \A i \in DOMAIN enqueued : enqueued[i].job_id # j

C34_Inv ==
    /\ \A i \in DOMAIN queue : queue[i].job_id \in DOMAIN jobs
    /\ \A j \in DOMAIN jobs : Orphan(j) =>
          /\ jobs[j].status = "queued"
          /\ jobs[j].started_at = NoTime /\ jobs[j].finished_at = NoTime
          /\ \A w \in Workers : job[w].job_id # j

C34_Step ==
    /\ enqueued' # enqueued =>
          /\ api.pc = "queued"
          /\ api.job_input.job_id \in DOMAIN jobs
          /\ jobs[api.job_input.job_id].status = "queued"
          /\ enqueued' = Append(enqueued, api.job_input)
    /\ \A j \in DOMAIN jobs : Orphan(j) => jobs'[j] = jobs[j]

C35_ErrorOnlyWhenFailed ==
    \A j \in DOMAIN jobs : jobs[j].status # "failed" => jobs[j].error_msg = NoMsg

\* C36: no reachable state has a job with status finished and the result
\* pointer unset.
C36_FinishedHasResult ==
    \A j \in DOMAIN jobs : jobs[j].status = "finished" => jobs[j].result.present

\* The connection thread t holds inside its with block or on its way back.
Held(t) == pool.conn[t]

C37_Inv ==
    /\ Len(pool.idle) <= max_connections
    /\ \A i, k \in DOMAIN pool.idle : i # k => pool.idle[i] # pool.idle[k]
    /\ \A t \in Threads :
          /\ pool.at[t] \in {"body", "put"} <=> Held(t) # 0
          /\ Held(t) # 0 =>
                /\ \A i \in DOMAIN pool.idle : pool.idle[i] # Held(t)
                /\ \A u \in Threads : u # t => Held(u) # Held(t)

C37_Step ==
    \A t \in Threads :
        PoolLeaveUnhealthy(t) =>
            /\ \A i \in DOMAIN pool'.idle : pool'.idle[i] # Held(t)
            /\ \A u \in Threads : pool'.conn[u] # Held(t)
            /\ pool'.idle = pool.idle

\* C37: the pool never holds more than max_connections idle connections, no
\* connection is held by two threads or held while it is idle in the pool,
\* and a connection that fails the health check on return is closed and not
\* put back.
C37_PoolSafe == []C37_Inv /\ [][C37_Step]_vars

\* Two threads are inside their with blocks at once, one with a temporary
\* connection, while a third waits at pool.get.
C37_Witness ==
    \E t, u, v \in Threads :
        /\ pool.at[t] = "body" /\ pool.at[u] = "body" /\ pool.at[v] = "get"
        /\ Held(t) = 1
        /\ Held(u) > max_connections

\* Worker w takes the step.
Moved(w) ==
    \/ pc'[w] # pc[w]
    \/ idx'[w] # idx[w]
    \/ pos'[w] # pos[w]
    \/ attempt'[w] # attempt[w]

\* The step changes the job row, a batch row or a file of job j.
RowsChanged(j) ==
    \/ j \in DOMAIN jobs /\ jobs'[j] # jobs[j]
    \/ \E i \in DOMAIN batches' :
          /\ batches'[i].job_id = j
          /\ i \notin DOMAIN batches \/ batches'[i] # batches[i]
    \/ \E i \in DOMAIN batches : batches[i].job_id = j /\ batches'[i].job_id # j
    \/ \E f \in (xlsx' \ xlsx) \cup (xlsx \ xlsx') : f[1] = j
    \/ j \in DOMAIN finals /\ finals'[j] # finals[j]

\* C38: a worker's step changes rows and files of the job it is processing
\* only: whenever something of job j changes, the step is one of a worker
\* that holds the descriptor of j (or of the submission of j).
C38_OnlyOwnJobRows ==
    [][\A j \in 1..MaxFrameJobs :
          RowsChanged(j) =>
              \/ \E w \in Workers : Moved(w) /\ job[w].job_id = j
              \/ api' # api /\ (api.job_input.job_id = j \/ api'.job_input.job_id = j)]_vars

\* Two workers are inside the retry loops of two different jobs.
C38_Witness ==
    \E w, v \in Workers :
        /\ job[w].job_id = 1 /\ job[v].job_id = 2
        /\ pc[w] = "executing" /\ pc[v] = "mark_failed"
        /\ Len(batches) = 2

====
